---- MODULE Spec2Model ----
(***************************************************************************)
(* The carousel of src/App.tsx: the reducer (carouselReducer), the         *)
(* imperative animation controller (CarouselAnimation), the pointer        *)
(* handlers and the effects of the App component.                          *)
(*                                                                         *)
(* Time is counted in ticks of 100 ms; every duration of the source is a   *)
(* whole number of ticks.  Offsets are whole CSS pixels.                   *)
(*                                                                         *)
(* One step is one event handler or one callback of the ticker or of a     *)
(* timer, together with the render and the layout effect it causes.  A     *)
(* tween that overwrites another ('auto', true) replaces it at once.  The  *)
(* variables ev, run, inputs, cardsBefore, probe and burst are history:    *)
(* they record what ran and change nothing the program does.               *)
(*                                                                         *)
(* Spec is the app as a user drives it.  SpecReducer is the reducer alone, *)
(* SpecGeometry the two geometry functions alone and SpecController the    *)
(* controller alone, each on more arguments than the app passes.           *)
(* SpecLayout adds the layout control and the render loop to a part of the *)
(* app, SpecGesture a release of the pointer capture that throws.          *)
(* SpecCards follows the local offsets of the cards through goTo, which    *)
(* the other specifications leave at rest.  SpecRetarget and SpecResize    *)
(* state that the ticker and the timers keep running: SpecRetarget for the *)
(* buttons, the dots and one pointer, SpecResize for resizes that come     *)
(* tick by tick.                                                           *)
(***************************************************************************)
EXTENDS Integers, Sequences, FiniteSets, TLC

(* ---------------------------------------------------------------------- *)
(* Program constants                                                       *)
(* ---------------------------------------------------------------------- *)

\* images.length
NumImages == 7

\* initialCarouselState.currentIndex
InitialIndex == 0

\* mx-8: 2rem of horizontal margin on each side of a card
CardMargin == 32

\* the track tween of goTo: duration 1.5
TrackDuration == 15

\* the master timeline: its longest children start at 0.1 and last 1.2
MasterDuration == 13

\* the card tween of a snap-back (fromIndex == toIndex): duration 0.6
SettleOnlyDuration == 6

\* the keyframes of a push: 0.6 (push away) + 1.0 (settle)
PushSettleDuration == 16

\* pushAmount: the distance cards are pushed away, in pixels
PushAmount == 40

\* the first keyframe of a push: duration 0.6
PushDuration == 6

\* debounce(..., 200)
DebounceDelay == 2

\* defaultConfig.arcStrength, in pixels
ArcStrength == 300

\* defaultConfig.arcRotation, in degrees
ArcRotation == 20

\* the widths from which the classes md: and lg: of a card apply
MdBreakpoint == 768

LgBreakpoint == 1024

\* rotations and scales are counted in thousandths: a scale of 1 is ScaleUnit
ScaleUnit == 1000

\* the 0.15 of scale = 1 - |norm| * 0.15, in thousandths
ArcScaleLoss == 150

(* ---------------------------------------------------------------------- *)
(* Bounds of the model                                                     *)
(* ---------------------------------------------------------------------- *)

\* GOTO/INTERRUPT payloads tried on the reducer run from -MaxExcess to
\* NumImages - 1 + MaxExcess
MaxExcess == 2

\* user inputs (clicks, pointer events, resizes, the unmount) in one run
MaxInputs == 3

\* the most ticks that pass in one step while nothing comes due
MaxLeap == 7

\* calls made on the controller directly in one run
MaxCalls == 2

Indices == 0 .. (NumImages - 1)

Payloads == (0 - MaxExcess) .. (NumImages - 1 + MaxExcess)

\* e.pointerId values: two pointers
PointerIds == {1, 2}

\* window.innerWidth values the resize handler is tried with (below the md
\* breakpoint, where a card is 70vw wide)
Viewports == {400, 600}

\* clientX values of the pointer events: a release can be still (deltaX 0), on
\* the threshold of the narrow viewport (56 = 280 / 5) or beyond it
ClientXs == {0, 56, 229}

\* e.button values: 0 is the primary button
Buttons == {0, 2}

(* ---------------------------------------------------------------------- *)
(* Arithmetic of the host language                                         *)
(* ---------------------------------------------------------------------- *)

\* JavaScript's %: the result takes the sign of the dividend
JsMod(a, n) == IF a >= 0 THEN a % n ELSE 0 - ((0 - a) % n)

Abs(a) == IF a >= 0 THEN a ELSE 0 - a

SetMin(S) == CHOOSE m \in S : \A n \in S : m <= n

(* ---------------------------------------------------------------------- *)
(* The reducer                                                             *)
(* ---------------------------------------------------------------------- *)

Idle == "idle"

Animating == "animating"

CarouselState(c, f, s) == [currentIndex |-> c, fromIndex |-> f, status |-> s]

initialCarouselState == CarouselState(InitialIndex, InitialIndex, Idle)

\* a CarouselAction; payload is 0 for the actions that carry none
Action(t, p) == [type |-> t, payload |-> p]

\* NEXT as a reducer that queues nothing by refusing input while animating
ReduceNext_IgnoredWhileAnimating(s) ==
  IF s.status = Animating
    THEN s
    ELSE CarouselState(JsMod(s.currentIndex + 1, NumImages), s.currentIndex, Animating)

\* case 'NEXT'
ReduceNext(s) ==
  CarouselState(JsMod(s.currentIndex + 1, NumImages), s.currentIndex, Animating)

\* PREV without the + images.length that keeps the dividend of % positive
ReducePrev_NoWrap(s) ==
  CarouselState(JsMod(s.currentIndex - 1, NumImages), s.currentIndex, Animating)

\* case 'PREV'
ReducePrev(s) ==
  CarouselState(JsMod(s.currentIndex - 1 + NumImages, NumImages), s.currentIndex, Animating)

\* GOTO without the test for the current index
ReduceGoto_NoCheck(s, payload) == CarouselState(payload, s.currentIndex, Animating)

\* case 'GOTO'
ReduceGoto(s, payload) ==
  IF s.currentIndex = payload THEN s ELSE CarouselState(payload, s.currentIndex, Animating)

\* case 'INTERRUPT'
ReduceInterrupt(s, payload) == CarouselState(payload, payload, Idle)

\* ANIMATION_END that resets the status alone
ReduceAnimationEnd_KeepsFrom(s) == [s EXCEPT !.status = Idle]

\* case 'ANIMATION_END'
ReduceAnimationEnd(s) == CarouselState(s.currentIndex, s.currentIndex, Idle)

carouselReducer(s, a) ==
  CASE a.type = "NEXT" -> ReduceNext(s)
    [] a.type = "PREV" -> ReducePrev(s)
    [] a.type = "GOTO" -> ReduceGoto(s, a.payload)
    [] a.type = "INTERRUPT" -> ReduceInterrupt(s, a.payload)
    [] a.type = "ANIMATION_END" -> ReduceAnimationEnd(s)
    [] OTHER -> s

(* ---------------------------------------------------------------------- *)
(* Geometry: the live DOM measures getTargetX reads                        *)
(* ---------------------------------------------------------------------- *)

\* carouselEl.parentElement.offsetWidth: the gesture wrapper is w-full
ParentWidth(vw) == vw

\* card.offsetWidth: w-[70vw] md:w-[50vw] lg:w-[35vw]
CardWidth(vw) ==
  IF vw >= LgBreakpoint THEN (35 * vw) \div 100
  ELSE IF vw >= MdBreakpoint THEN (50 * vw) \div 100
  ELSE (70 * vw) \div 100

\* card.offsetLeft inside the flex track: every card carries both margins.  A
\* width of 0 stands for a track that is not laid out (removed from the
\* document): offsetWidth and offsetLeft are 0 for all of its elements
OffsetLeft(i, vw) ==
  IF vw = 0 THEN 0 ELSE CardMargin + i * (CardWidth(vw) + 2 * CardMargin)

\* in place of a width: the track has no parent element
NoParent == 0 - 1

\* a target that puts the left edge of the card on the centre
getTargetX_LeftEdge(i, vw) ==
  IF i < 0 \/ i >= NumImages \/ vw = NoParent
    THEN 0
    ELSE (ParentWidth(vw) \div 2) - OffsetLeft(i, vw)

\* parentWidth / 2 - cardOffsetLeft - cardWidth / 2, and 0 for an index out of
\* range or a track without parent (the widths of Viewports and of
\* GeometryWidths keep both halves whole)
getTargetX(i, vw) ==
  IF i < 0 \/ i >= NumImages \/ vw = NoParent
    THEN 0
    ELSE (ParentWidth(vw) \div 2) - OffsetLeft(i, vw) - (CardWidth(vw) \div 2)

\* the loop with minDistance begun at 0 instead of Infinity: no distance is
\* ever smaller
RECURSIVE ClosestFrom_ZeroMin(_, _, _, _, _)
ClosestFrom_ZeroMin(i, closest, minDistance, currentX, vw) ==
  IF i >= NumImages
    THEN closest
    ELSE LET distance == Abs(currentX - getTargetX(i, vw))
         IN IF distance < minDistance
              THEN ClosestFrom_ZeroMin(i + 1, i, distance, currentX, vw)
              ELSE ClosestFrom_ZeroMin(i + 1, closest, minDistance, currentX, vw)

\* the loop with <= in place of <: of several closest cards the last one wins
RECURSIVE ClosestFrom_LastWins(_, _, _, _, _)
ClosestFrom_LastWins(i, closest, minDistance, currentX, vw) ==
  IF i >= NumImages
    THEN closest
    ELSE LET distance == Abs(currentX - getTargetX(i, vw))
         IN IF closest = -1 \/ distance <= minDistance
              THEN ClosestFrom_LastWins(i + 1, i, distance, currentX, vw)
              ELSE ClosestFrom_LastWins(i + 1, closest, minDistance, currentX, vw)

\* the loop of getClosestIndex from card i on: closest is -1 while minDistance
\* is still Infinity
RECURSIVE ClosestFrom(_, _, _, _, _)
ClosestFrom(i, closest, minDistance, currentX, vw) ==
  IF i >= NumImages
    THEN closest
    ELSE LET distance == Abs(currentX - getTargetX(i, vw))
         IN IF closest = -1 \/ distance < minDistance
              THEN ClosestFrom(i + 1, i, distance, currentX, vw)
              ELSE ClosestFrom(i + 1, closest, minDistance, currentX, vw)

getClosestIndex(currentX, vw) == ClosestFrom(0, -1, 0, currentX, vw)

(* ---------------------------------------------------------------------- *)
(* The track tween                                                         *)
(* ---------------------------------------------------------------------- *)

Pow5(t) == t * t * t * t * t

\* x after t ticks of the track tween from a to b, ease 'power4.inOut': the
\* part of the way gone is 16 p^5 in the first half and 1 - 16 (1 - p)^5 in the
\* second, with p = t / TrackDuration; cut to whole pixels
TweenValue(a, b, t) ==
  LET d   == Abs(b - a)
      sgn == IF b >= a THEN 1 ELSE 0 - 1
  IN IF 2 * t < TrackDuration
       THEN a + sgn * ((d * 16 * Pow5(t)) \div Pow5(TrackDuration))
       ELSE b - sgn * ((d * 16 * Pow5(TrackDuration - t)) \div Pow5(TrackDuration))

NoTween == [active |-> FALSE, from |-> 0, target |-> 0, elapsed |-> 0]

NoCards == [active |-> FALSE, remaining |-> 0, toIndex |-> 0, push |-> FALSE]

NoMaster == [active |-> FALSE, remaining |-> 0, index |-> 0, cancelled |-> FALSE]

\* the largest distance, in cards, from toIndex to an end of the row
MaxDistance(toIndex) ==
  IF toIndex > NumImages - 1 - toIndex THEN toIndex ELSE NumImages - 1 - toIndex

\* the delay of the last card to start, in ticks: stagger each 0.05 is spread
\* over the cards.length - 1 steps between the cards, half a tick each,
\* wherever the stagger starts from
StaggerAmount == (NumImages - 1) \div 2

\* the stagger delay of card i, in ticks rounded up: from toIndex outwards,
\* StaggerAmount times the ease 'power2.out', 1 - (1 - p)^3, of the distance of
\* the card as a part p of the largest distance
StaggerDelay(i, toIndex) ==
  LET m  == MaxDistance(toIndex)
      k  == Abs(i - toIndex)
      m3 == m * m * m
      r3 == (m - k) * (m - k) * (m - k)
  IN (StaggerAmount * (m3 - r3) + m3 - 1) \div m3

\* ticks until the card tween of goTo(fromIndex, toIndex) ends: a settle alone,
\* or push and settle after the longest stagger delay
CardsDuration(fromIndex, toIndex) ==
  IF fromIndex = toIndex
    THEN SettleOnlyDuration
    ELSE PushSettleDuration + StaggerAmount

\* a push towards the destination card
PushTarget_Inward(i, toIndex) ==
  IF i < toIndex THEN PushAmount
  ELSE IF i > toIndex THEN 0 - PushAmount
  ELSE 0

\* x of the first keyframe for card i: away from the destination card, which
\* stays where it is
PushTarget(i, toIndex) ==
  IF i < toIndex THEN 0 - PushAmount
  ELSE IF i > toIndex THEN PushAmount
  ELSE 0

\* the x targets card i is tweened to, in order, by the card timeline ct: the
\* two keyframes of a push, or the single tween back to rest
Keyframes(ct, i) ==
  IF ct.push THEN << PushTarget(i, ct.toIndex), 0 >> ELSE << 0 >>

\* t to the power n
RECURSIVE Pow(_, _)
Pow(t, n) == IF n = 0 THEN 1 ELSE t * Pow(t, n - 1)

\* the value t ticks into a tween of dur ticks from a to b with an ease out of
\* power n ('power3.out' is n = 4, 'power4.out' n = 5): the part of the way
\* gone is 1 - (1 - t / dur)^n; cut to whole pixels
EaseOut(a, b, t, dur, n) ==
  LET d   == Abs(b - a)
      sgn == IF b >= a THEN 1 ELSE 0 - 1
  IN b - sgn * ((d * Pow(dur - t, n)) \div Pow(dur, n))

\* x of card i when the card timeline ct has run for elapsed ticks, the card
\* having been at from when the timeline was created: it waits for its stagger
\* delay, is pushed ('power3.out') and settles ('power4.out'); without a push
\* it goes back to rest at once ('power3.out')
CardValue(ct, i, from, elapsed) ==
  IF ~ct.push
    THEN IF elapsed >= SettleOnlyDuration
           THEN 0
           ELSE EaseOut(from, 0, elapsed, SettleOnlyDuration, 4)
    ELSE LET e == elapsed - StaggerDelay(i, ct.toIndex)
         IN IF e <= 0 THEN from
            ELSE IF e < PushDuration
              THEN EaseOut(from, PushTarget(i, ct.toIndex), e, PushDuration, 4)
            ELSE IF e < PushSettleDuration
              THEN EaseOut(PushTarget(i, ct.toIndex), 0, e - PushDuration,
                           PushSettleDuration - PushDuration, 5)
            ELSE 0

(* ---------------------------------------------------------------------- *)
(* The layout transforms of render                                         *)
(* ---------------------------------------------------------------------- *)

Layouts == {"linear", "arc"}

\* defaultConfig.layout
defaultLayout == "linear"

\* a card with no layout transform: y 0, rotation 0, scale 1
Identity == [y |-> 0, rotation |-> 0, scale |-> ScaleUnit]

\* the linear branch of render when it writes nothing
LinearTransform_Kept(card) == card

\* the linear branch of render: gsap.set(card, {y: 0, rotation: 0, scale: 1})
LinearTransform(card) == Identity

\* the arc branch of render for card i with the track at xx in a viewport of
\* width vw: norm = dist / vw, y = norm^2 * arcStrength, rotation = norm *
\* arcRotation, scale = 1 - |norm| * 0.15; y is cut to whole pixels, rotation
\* and scale to thousandths
ArcTransform(i, xx, vw) ==
  LET cardX      == xx + OffsetLeft(i, vw)
      cardCenter == cardX + (CardWidth(vw) \div 2)
      dist       == cardCenter - (vw \div 2)
  IN [y        |-> (((dist * dist) \div vw) * ArcStrength) \div vw,
      rotation |-> (dist * ArcRotation * ScaleUnit) \div vw,
      scale    |-> ScaleUnit - ((Abs(dist) * ArcScaleLoss) \div vw)]

(* ---------------------------------------------------------------------- *)
(* State                                                                   *)
(* ---------------------------------------------------------------------- *)

VARIABLES
  mounted,         \* the App component is mounted (the mount effect ran, its cleanup did not)
  state,           \* useReducer(carouselReducer, initialCarouselState)
  displayedImage,  \* useState: the index of the image whose title and author show
  visibleBg,       \* useState(0): which background layer counts as visible
  bgImage,         \* style.backgroundImage of bgRef1 (0) and bgRef2 (1): an image index, -1 for none
  masterTimeline,  \* masterTimelineRef.current
  mainTween,       \* the live tween of the track's x (CarouselAnimation.mainTween)
  cardsTimeline,   \* CarouselAnimation.cardsTimeline
  x,               \* gsap.getProperty(carouselEl, 'x')
  dragInfo,        \* dragInfo.current
  capture,         \* the pointer id the gesture wrapper holds the capture of, 0 for none
  innerWidth,      \* the viewport width the DOM is laid out for
  resizeTimer,     \* ticks until the debounced resize handler fires, -1 when none is pending
  tickerAdded,     \* how many times render is registered on gsap.ticker
  layout,          \* config.layout of the controller: "linear" or "arc"
  cards,           \* y, rotation and scale of every card, as render set them last
  cardsBefore,     \* the cards that were off the identity before the last render
  probe,           \* the arguments and the result of the last call made on the controller
  burst,           \* the resize notifications since the debounce timer was last idle
  cardTransformers, \* x of the .card-transformer of every card, and what it was when goTo ran last
  ev,              \* the handler or callback that ran last and what it dispatched
  run,             \* how far the run NEXT, NEXT, NEXT from the initial state has come
  inputs           \* user inputs so far

vars ==
  << mounted, state, displayedImage, visibleBg, bgImage, masterTimeline, mainTween,
     cardsTimeline, x, dragInfo, capture, innerWidth, resizeTimer, tickerAdded, layout,
     cards, cardsBefore, probe, burst, cardTransformers, ev, run, inputs >>

\* what the steps of the reducer, of the handlers and of the tweens leave alone:
\* the layout mode, the transforms render writes, the record of a call, the
\* record of a burst of resizes and the local offsets of the cards
aux == << layout, cards, cardsBefore, probe, burst, cardTransformers >>

\* every card at rest: no local offset
AtRest == [i \in Indices |-> [x |-> 0, from |-> 0]]

\* a burst of resize notifications: how many have come since the timer was last
\* idle, the ticks between the last two of them, the ticks since the last one
\* (counted up to DebounceDelay) and the calls of the debounced function since
\* the burst began
Burst(size, gap, quiet, calls) ==
  [size |-> size, gap |-> gap, quiet |-> quiet, calls |-> calls]

NoBurst == Burst(0, 0, 0, 0)

\* a call on the controller: its index argument, the fromIndex of goTo, and
\* what it returned (0 when it returns nothing)
Probe(index, from, result) == [index |-> index, from |-> from, result |-> result]

NoProbe == Probe(0, 0, 0)

\* what ran last: its name, whether it got past its guard, the CarouselState
\* before it, the actions it dispatched in order, the deltaX of a release, and
\* whether the transition of a completing master timeline had been cancelled
Ev(h, a, b, d, dx, c) ==
  [handler |-> h, acted |-> a, before |-> b, dispatched |-> d, deltaX |-> dx,
   cancelled |-> c]

NoDrag == [isDragging |-> FALSE, startX |-> 0, startCarouselX |-> 0, pointerId |-> 0]

\* nexts: the NEXTs dispatched, -1 once the run is broken; ends: the
\* ANIMATION_ENDs processed; last: the type of the last action of the run
Broken == [nexts |-> 0 - 1, ends |-> 0, last |-> "NONE"]

\* the run continues while only NEXT (at most three) and ANIMATION_END are dispatched
RunAfter(r, d) ==
  IF d = << >> THEN r
  ELSE IF r.nexts = 0 - 1 THEN r
  ELSE IF Len(d) = 1 /\ d[1].type = "NEXT" /\ r.nexts < 3
         THEN [nexts |-> r.nexts + 1, ends |-> r.ends, last |-> "NEXT"]
  ELSE IF Len(d) = 1 /\ d[1].type = "ANIMATION_END"
         THEN [nexts |-> r.nexts, ends |-> r.ends + 1, last |-> "ANIMATION_END"]
  ELSE Broken

(* ---------------------------------------------------------------------- *)
(* CarouselAnimation                                                       *)
(* ---------------------------------------------------------------------- *)

\* gsap.ticker.add(this.render) in the constructor: n is how many times render
\* is registered
tickerAdd(n) == n + 1

\* a removal that finds nothing to remove (a callback that is not the one that
\* was added)
tickerRemove_Missed(n) == n

\* gsap.ticker.remove(this.render) in destroy; render is one arrow function for
\* the life of the controller, so the callback added is the one removed
tickerRemove(n) == IF n > 0 THEN n - 1 ELSE n

\* snapTo without its test of the index
snapTo_Unchecked(index, xx, vw) == getTargetX(index, vw)

\* snapTo(index): gsap.set of the track's x, nothing for an index out of range
snapTo(index, xx, vw) ==
  IF index < 0 \/ index >= NumImages THEN xx ELSE getTargetX(index, vw)

\* drag(baseX, deltaX): gsap.set of the track's x
drag(baseX, deltaX) == baseX + deltaX

\* goTo, the track: a new tween from the current x, which overwrites ('auto')
\* the tween of x that was running; nothing for a toIndex out of range
goToTween(fromIndex, toIndex, tw, xx, vw) ==
  IF toIndex < 0 \/ toIndex >= NumImages
    THEN tw
    ELSE [active |-> TRUE, from |-> xx, target |-> getTargetX(toIndex, vw), elapsed |-> 0]

\* goTo, the cards: the card timeline is killed and a new one started
goToCards(fromIndex, toIndex, ct) ==
  IF toIndex < 0 \/ toIndex >= NumImages
    THEN ct
    ELSE [active |-> TRUE, remaining |-> CardsDuration(fromIndex, toIndex),
          toIndex |-> toIndex, push |-> fromIndex # toIndex]

(* ---------------------------------------------------------------------- *)
(* The transition effect                                                   *)
(* ---------------------------------------------------------------------- *)

\* an effect that depends on the status alone: a dispatch that finds the status
\* animating starts nothing
EffectDue_StatusOnly(old, new, oldBg, newBg) ==
  new.status = Animating /\ old.status # new.status

\* the effect runs after a render in which one of its dependencies changed, and
\* acts only while animating
EffectDue(old, new, oldBg, newBg) ==
  /\ new.status = Animating
  /\ \/ old.status # new.status
     \/ old.currentIndex # new.currentIndex
     \/ old.fromIndex # new.fromIndex
     \/ oldBg # newBg

\* a master timeline whose onComplete shows the image of the card left
NewMaster_FromIndex(s) ==
  [active |-> TRUE, remaining |-> MasterDuration, index |-> s.fromIndex,
   cancelled |-> FALSE]

\* gsap.timeline({onComplete}) with the title, author and background tweens; the
\* timeline it replaces has been killed
NewMaster(s) ==
  [active |-> TRUE, remaining |-> MasterDuration, index |-> s.currentIndex,
   cancelled |-> FALSE]

\* newBgRef.style.backgroundImage, when images[state.currentIndex] exists
BgAfterEffect(bg, s, vb) ==
  IF s.currentIndex \in Indices THEN [bg EXCEPT ![1 - vb] = s.currentIndex] ELSE bg

\* a render with the new CarouselState and visibleBg, followed by the layout
\* effect when it is due; mt, tw and ct are the master timeline, track tween and
\* card timeline as the handler left them
Commit(new, newBg, mt, tw, ct) ==
  /\ state' = new
  /\ visibleBg' = newBg
  /\ IF EffectDue(state, new, visibleBg, newBg)
       THEN /\ masterTimeline' = NewMaster(new)
            /\ bgImage' = BgAfterEffect(bgImage, new, newBg)
            /\ mainTween' = goToTween(new.fromIndex, new.currentIndex, tw, x, innerWidth)
            /\ cardsTimeline' = goToCards(new.fromIndex, new.currentIndex, ct)
       ELSE /\ masterTimeline' = mt
            /\ bgImage' = bgImage
            /\ mainTween' = tw
            /\ cardsTimeline' = ct

(* ---------------------------------------------------------------------- *)
(* Initial state: the component has mounted                                *)
(* ---------------------------------------------------------------------- *)

Init ==
  /\ mounted = TRUE
  /\ state = initialCarouselState
  /\ displayedImage = initialCarouselState.currentIndex
  /\ visibleBg = 0
  /\ bgImage = [l \in {0, 1} |-> IF l = 0 THEN initialCarouselState.currentIndex ELSE 0 - 1]
  /\ masterTimeline = NoMaster
  /\ mainTween = NoTween
  /\ cardsTimeline = NoCards
  /\ innerWidth = SetMin(Viewports)
  /\ x = snapTo(initialCarouselState.currentIndex, 0, innerWidth)
  /\ dragInfo = NoDrag
  /\ capture = 0
  /\ resizeTimer = 0 - 1
  /\ tickerAdded = tickerAdd(0)
  /\ layout = defaultLayout
  /\ cards = [i \in Indices |-> Identity]
  /\ cardsBefore = {}
  /\ probe = NoProbe
  /\ burst = NoBurst
  /\ cardTransformers = AtRest
  /\ ev = Ev("mount", TRUE, initialCarouselState, << >>, 0, FALSE)
  /\ run = [nexts |-> 0, ends |-> 0, last |-> "NONE"]
  /\ inputs = 0

(* ---------------------------------------------------------------------- *)
(* Buttons                                                                 *)
(* ---------------------------------------------------------------------- *)

\* dispatch(a) from a click handler, and the render that follows
Dispatch(h, a) ==
  /\ mounted
  /\ Commit(carouselReducer(state, a), visibleBg, masterTimeline, mainTween, cardsTimeline)
  /\ ev' = Ev(h, TRUE, state, << a >>, 0, FALSE)
  /\ run' = RunAfter(run, << a >>)
  /\ UNCHANGED << mounted, displayedImage, x, dragInfo, capture, innerWidth, resizeTimer,
                  tickerAdded >>

ClickPrev == Dispatch("prev", Action("PREV", 0))

ClickNext == Dispatch("next", Action("NEXT", 0))

ClickDot(index) == Dispatch("dot", Action("GOTO", index))

(* ---------------------------------------------------------------------- *)
(* Pointer handlers                                                        *)
(* ---------------------------------------------------------------------- *)

\* an interrupt that leaves the master timeline running
KillMaster_Skipped(mt) == mt

\* masterTimelineRef.current?.kill()
KillMaster(mt) == NoMaster

\* an interrupt that leaves the track tween running
KillTrack_Skipped(tw) == tw

\* mainTween?.kill() and gsap.killTweensOf(carouselEl)
KillTrack(tw) == NoTween

\* cardsTimeline?.kill()
KillCards(ct) == NoCards

\* gestureWrapperRef.current.setPointerCapture(e.pointerId): the wrapper captures
\* the pointer, in place of the one it held
setPointerCapture(held, pointerId) == pointerId

\* gestureWrapperRef.current.releasePointerCapture(e.pointerId), when it returns:
\* the capture is given up if it is this pointer's
releasePointerCapture(held, pointerId) == IF held = pointerId THEN 0 ELSE held

handlePointerDown(button, clientX, pointerId) ==
  /\ mounted
  /\ UNCHANGED << mounted, innerWidth, resizeTimer, tickerAdded, x >>
  /\ IF button # 0
       THEN /\ ev' = Ev("pointerdown", FALSE, state, << >>, 0, FALSE)
            /\ UNCHANGED << state, displayedImage, visibleBg, bgImage, masterTimeline,
                            mainTween, cardsTimeline, dragInfo, capture, run >>
       ELSE /\ IF state.status = Animating
                 THEN LET closestIndex == getClosestIndex(x, innerWidth)
                          a == Action("INTERRUPT", closestIndex)
                      IN /\ Commit(carouselReducer(state, a), visibleBg,
                                   KillMaster(masterTimeline), KillTrack(mainTween),
                                   KillCards(cardsTimeline))
                         /\ displayedImage' = closestIndex
                         /\ ev' = Ev("pointerdown", TRUE, state, << a >>, 0, FALSE)
                         /\ run' = RunAfter(run, << a >>)
                 ELSE /\ ev' = Ev("pointerdown", TRUE, state, << >>, 0, FALSE)
                      /\ UNCHANGED << state, displayedImage, visibleBg, bgImage,
                                      masterTimeline, mainTween, cardsTimeline, run >>
            /\ dragInfo' = [isDragging |-> TRUE, startX |-> clientX,
                            startCarouselX |-> x, pointerId |-> pointerId]
            /\ capture' = setPointerCapture(capture, pointerId)

\* a guard that tests the pointer id alone
NotOfDrag_IdOnly(pointerId) == pointerId # dragInfo.pointerId

\* !dragInfo.current.isDragging || e.pointerId !== dragInfo.current.pointerId
NotOfDrag(pointerId) == ~dragInfo.isDragging \/ pointerId # dragInfo.pointerId

handlePointerMove(clientX, pointerId) ==
  /\ mounted
  /\ UNCHANGED << mounted, state, displayedImage, visibleBg, bgImage, masterTimeline,
                  mainTween, cardsTimeline, dragInfo, capture, innerWidth, resizeTimer,
                  tickerAdded, run >>
  /\ IF NotOfDrag(pointerId)
       THEN /\ ev' = Ev("pointermove", FALSE, state, << >>, 0, FALSE)
            /\ x' = x
       ELSE LET deltaX == clientX - dragInfo.startX
            IN /\ x' = drag(dragInfo.startCarouselX, deltaX)
               /\ ev' = Ev("pointermove", TRUE, state, << >>, deltaX, FALSE)

\* a release whose directions are exchanged: a drag to the left goes back
SwipeAction_Swapped(deltaX, cardWidth) ==
  IF 5 * deltaX < 0 - cardWidth THEN "PREV"
  ELSE IF 5 * deltaX > cardWidth THEN "NEXT"
  ELSE "NONE"

\* a release that swipes already on the threshold
SwipeAction_Inclusive(deltaX, cardWidth) ==
  IF 5 * deltaX <= 0 - cardWidth THEN "NEXT"
  ELSE IF 5 * deltaX >= cardWidth THEN "PREV"
  ELSE "NONE"

\* what a release of deltaX dispatches: threshold = cardWidth / 5
SwipeAction(deltaX, cardWidth) ==
  IF 5 * deltaX < 0 - cardWidth THEN "NEXT"
  ELSE IF 5 * deltaX > cardWidth THEN "PREV"
  ELSE "NONE"

\* onPointerUp, onPointerCancel and onPointerLeave.  released: the call of
\* releasePointerCapture returned; when it throws instead (NotFoundError, for a
\* pointer id that is not an active pointer) the handler ends there
handlePointerUp(clientX, pointerId, released) ==
  /\ mounted
  /\ UNCHANGED << mounted, displayedImage, x, innerWidth, resizeTimer, tickerAdded >>
  /\ IF NotOfDrag(pointerId)
       THEN /\ ev' = Ev("pointerup", FALSE, state, << >>, 0, FALSE)
            /\ UNCHANGED << state, visibleBg, bgImage, masterTimeline, mainTween,
                            cardsTimeline, dragInfo, capture, run >>
       ELSE IF ~released
         THEN /\ ev' = Ev("pointerup", TRUE, state, << >>, 0, FALSE)
              /\ UNCHANGED << state, visibleBg, bgImage, masterTimeline, mainTween,
                              cardsTimeline, dragInfo, capture, run >>
         ELSE LET deltaX == clientX - dragInfo.startX
                  swipe  == SwipeAction(deltaX, CardWidth(innerWidth))
              IN /\ capture' = releasePointerCapture(capture, pointerId)
                 /\ IF swipe = "NONE"
                      THEN /\ mainTween' = goToTween(state.currentIndex, state.currentIndex,
                                                     mainTween, x, innerWidth)
                           /\ cardsTimeline' = goToCards(state.currentIndex,
                                                         state.currentIndex, cardsTimeline)
                           /\ ev' = Ev("pointerup", TRUE, state, << >>, deltaX, FALSE)
                           /\ UNCHANGED << state, visibleBg, bgImage, masterTimeline, run >>
                      ELSE /\ Commit(carouselReducer(state, Action(swipe, 0)), visibleBg,
                                     masterTimeline, mainTween, cardsTimeline)
                           /\ ev' = Ev("pointerup", TRUE, state, << Action(swipe, 0) >>,
                                       deltaX, FALSE)
                           /\ run' = RunAfter(run, << Action(swipe, 0) >>)
                 /\ dragInfo' = [dragInfo EXCEPT !.isDragging = FALSE]

(* ---------------------------------------------------------------------- *)
(* The ticker: time passes, tweens and timers come due                     *)
(* ---------------------------------------------------------------------- *)

MasterDue == masterTimeline.active /\ masterTimeline.remaining = 0

TrackDue == mainTween.active /\ mainTween.elapsed = TrackDuration

CardsDue == cardsTimeline.active /\ cardsTimeline.remaining = 0

ResizeDue == resizeTimer = 0

\* ticks until the first live tween or timer comes due, at most MaxLeap
Leap ==
  SetMin({MaxLeap}
         \cup (IF masterTimeline.active THEN {masterTimeline.remaining} ELSE {})
         \cup (IF mainTween.active THEN {TrackDuration - mainTween.elapsed} ELSE {})
         \cup (IF cardsTimeline.active THEN {cardsTimeline.remaining} ELSE {})
         \cup (IF resizeTimer > 0 THEN {resizeTimer} ELSE {}))

\* d ticks of 100 ms pass while nothing is due: every live tween advances and
\* the track tween writes x
Advance(d) ==
  /\ masterTimeline.active \/ mainTween.active \/ cardsTimeline.active \/ resizeTimer > 0
  /\ ~MasterDue /\ ~TrackDue /\ ~CardsDue /\ ~ResizeDue
  /\ masterTimeline' =
       IF masterTimeline.active
         THEN [masterTimeline EXCEPT !.remaining = @ - d]
         ELSE masterTimeline
  /\ mainTween' =
       IF mainTween.active THEN [mainTween EXCEPT !.elapsed = @ + d] ELSE mainTween
  /\ x' =
       IF mainTween.active
         THEN TweenValue(mainTween.from, mainTween.target, mainTween.elapsed + d)
         ELSE x
  /\ cardsTimeline' =
       IF cardsTimeline.active
         THEN [cardsTimeline EXCEPT !.remaining = @ - d]
         ELSE cardsTimeline
  /\ resizeTimer' = IF resizeTimer > 0 THEN resizeTimer - d ELSE resizeTimer
  /\ ev' = Ev("tick", TRUE, state, << >>, 0, FALSE)
  /\ UNCHANGED << mounted, state, displayedImage, visibleBg, bgImage, dragInfo, capture,
                  innerWidth, tickerAdded, run >>

\* time passes up to the next thing that is due, MaxLeap ticks at most
Tick == Advance(Leap)

\* onComplete of the master timeline: dispatch ANIMATION_END, flip visibleBg, show
\* the image of the index the effect closed over; an unmounted component
\* ignores all three
MasterComplete ==
  /\ MasterDue
  /\ LET a == Action("ANIMATION_END", 0)
     IN /\ ev' = Ev("onComplete", TRUE, state, << a >>, 0, masterTimeline.cancelled)
        /\ IF mounted
             THEN /\ Commit(carouselReducer(state, a), 1 - visibleBg,
                            NoMaster, mainTween, cardsTimeline)
                  /\ displayedImage' = masterTimeline.index
                  /\ run' = RunAfter(run, << a >>)
             ELSE /\ masterTimeline' = NoMaster
                  /\ UNCHANGED << state, visibleBg, bgImage, mainTween, cardsTimeline,
                                  displayedImage, run >>
  /\ UNCHANGED << mounted, x, dragInfo, capture, innerWidth, resizeTimer, tickerAdded >>

\* the track tween has reached its target; goTo is never given an onComplete
TrackComplete ==
  /\ TrackDue
  /\ mainTween' = NoTween
  /\ ev' = Ev("trackComplete", TRUE, state, << >>, 0, FALSE)
  /\ UNCHANGED << mounted, state, displayedImage, visibleBg, bgImage, masterTimeline,
                  cardsTimeline, x, dragInfo, capture, innerWidth, resizeTimer, tickerAdded,
                  run >>

CardsComplete ==
  /\ CardsDue
  /\ cardsTimeline' = NoCards
  /\ ev' = Ev("cardsComplete", TRUE, state, << >>, 0, FALSE)
  /\ UNCHANGED << mounted, state, displayedImage, visibleBg, bgImage, masterTimeline,
                  mainTween, x, dragInfo, capture, innerWidth, resizeTimer, tickerAdded,
                  run >>

(* ---------------------------------------------------------------------- *)
(* Resize                                                                  *)
(* ---------------------------------------------------------------------- *)

\* a debounce that leaves a pending timer as it is
debounce_KeepsPending(timer) == IF timer >= 0 THEN timer ELSE DebounceDelay

\* the function debounce returns, called while timer ticks are left (-1: none
\* pending): clearTimeout(timeoutId), then setTimeout(..., delay)
debounce(timer) == DebounceDelay

\* a resize event: the layout follows at once, the debounced handler is re-armed
Resize(vw) ==
  /\ mounted
  /\ innerWidth' = vw
  /\ resizeTimer' = debounce(resizeTimer)
  /\ ev' = Ev("resize", TRUE, state, << >>, 0, FALSE)
  /\ UNCHANGED << mounted, state, displayedImage, visibleBg, bgImage, masterTimeline,
                  mainTween, cardsTimeline, x, dragInfo, capture, tickerAdded, run >>

\* the width the track is laid out for when it is measured: unmounting takes
\* it out of the document
LayoutWidth == IF mounted THEN innerWidth ELSE 0

\* an index read from the closure of the mount effect, which never changes
currentIndexRef_Stale == initialCarouselState.currentIndex

\* currentIndexRef.current, which every render sets to state.currentIndex
currentIndexRef == state.currentIndex

\* the debounced handler: animationController.current?.snapTo(currentIndexRef.current)
handleResize ==
  /\ ResizeDue
  /\ resizeTimer' = 0 - 1
  /\ x' = snapTo(currentIndexRef, x, LayoutWidth)
  /\ ev' = Ev("handleResize", TRUE, state, << >>, 0, FALSE)
  /\ UNCHANGED << mounted, state, displayedImage, visibleBg, bgImage, masterTimeline,
                  mainTween, cardsTimeline, dragInfo, capture, innerWidth, tickerAdded,
                  run >>

(* ---------------------------------------------------------------------- *)
(* Unmount                                                                 *)
(* ---------------------------------------------------------------------- *)

\* the cleanup of the mount effect: controller.destroy() removes render from the
\* ticker and kills the track tween and the card timeline; the master timeline
\* and a pending resize timer are left alone
Unmount ==
  /\ mounted
  /\ mounted' = FALSE
  /\ tickerAdded' = tickerRemove(tickerAdded)
  /\ mainTween' = NoTween
  /\ cardsTimeline' = NoCards
  /\ masterTimeline' =
       IF masterTimeline.active
         THEN [masterTimeline EXCEPT !.cancelled = TRUE]
         ELSE masterTimeline
  /\ ev' = Ev("unmount", TRUE, state, << >>, 0, FALSE)
  /\ UNCHANGED << state, displayedImage, visibleBg, bgImage, x, dragInfo, capture,
                  innerWidth, resizeTimer, run >>

(* ---------------------------------------------------------------------- *)
(* The program                                                             *)
(* ---------------------------------------------------------------------- *)

\* a user input: one more of the MaxInputs of a run
Input(A) == inputs < MaxInputs /\ A /\ inputs' = inputs + 1 /\ UNCHANGED aux

\* a callback of the ticker or of a timer
Callback(A) == A /\ inputs' = inputs /\ UNCHANGED aux

Next ==
  \/ Input(ClickPrev)
  \/ Input(ClickNext)
  \/ \E index \in Indices : Input(ClickDot(index))
  \/ \E button \in Buttons, clientX \in ClientXs, pointerId \in PointerIds :
       Input(handlePointerDown(button, clientX, pointerId))
  \/ \E clientX \in ClientXs, pointerId \in PointerIds :
       Input(handlePointerMove(clientX, pointerId))
  \/ \E clientX \in ClientXs, pointerId \in PointerIds :
       Input(handlePointerUp(clientX, pointerId, TRUE))
  \/ Callback(Tick)
  \/ Callback(MasterComplete)
  \/ Callback(TrackComplete)
  \/ Callback(CardsComplete)
  \/ \E vw \in Viewports : Input(Resize(vw))
  \/ Callback(handleResize)
  \/ Input(Unmount)

Spec == Init /\ [][Next]_vars

(* ---------------------------------------------------------------------- *)
(* The layout mode and the render loop                                     *)
(* ---------------------------------------------------------------------- *)

\* the Layout Mode control of the panel: controller.updateConfig({layout: v})
updateConfig(v) ==
  /\ mounted
  /\ layout' = v
  /\ ev' = Ev("updateConfig", TRUE, state, << >>, 0, FALSE)
  /\ UNCHANGED << mounted, state, displayedImage, visibleBg, bgImage, masterTimeline,
                  mainTween, cardsTimeline, x, dragInfo, capture, innerWidth, resizeTimer,
                  tickerAdded, cards, cardsBefore, probe, burst, cardTransformers, run >>

\* render, which the ticker calls on every frame while it is registered: every
\* card is written, in either layout
render ==
  /\ tickerAdded > 0
  /\ cards' = [i \in Indices |->
                IF layout = "arc"
                  THEN ArcTransform(i, x, innerWidth)
                  ELSE LinearTransform(cards[i])]
  /\ cardsBefore' = {i \in Indices : cards[i] # Identity}
  /\ ev' = Ev("render", TRUE, state, << >>, 0, FALSE)
  /\ UNCHANGED << mounted, state, displayedImage, visibleBg, bgImage, masterTimeline,
                  mainTween, cardsTimeline, x, dragInfo, capture, innerWidth, resizeTimer,
                  tickerAdded, layout, probe, burst, cardTransformers, run >>

\* the app with its layout control and its render loop, for one pointer and
\* the Next button
NextLayout ==
  \/ \E v \in Layouts : inputs < MaxInputs /\ updateConfig(v) /\ inputs' = inputs + 1
  \/ render /\ inputs' = inputs
  \/ Input(ClickNext)
  \/ \E clientX \in ClientXs : Input(handlePointerDown(0, clientX, 1))
  \/ \E clientX \in ClientXs : Input(handlePointerMove(clientX, 1))
  \/ \E clientX \in ClientXs : Input(handlePointerUp(clientX, 1, TRUE))
  \/ Callback(Tick)
  \/ Callback(MasterComplete)
  \/ Callback(TrackComplete)
  \/ Callback(CardsComplete)
  \/ Input(Unmount)

SpecLayout == Init /\ [][NextLayout]_vars

(* ---------------------------------------------------------------------- *)
(* The gesture handlers when releasePointerCapture may throw               *)
(* ---------------------------------------------------------------------- *)

\* Spec takes the pointer of every event to be an active pointer, for which
\* releasePointerCapture returns.  Here a release may also throw, as it does
\* for an event whose pointer id the browser does not know (a PointerEvent
\* built and dispatched by a script).
NextGesture ==
  \/ \E button \in Buttons, clientX \in ClientXs, pointerId \in PointerIds :
       Input(handlePointerDown(button, clientX, pointerId))
  \/ \E clientX \in ClientXs, pointerId \in PointerIds :
       Input(handlePointerMove(clientX, pointerId))
  \/ \E clientX \in ClientXs, pointerId \in PointerIds, released \in BOOLEAN :
       Input(handlePointerUp(clientX, pointerId, released))
  \/ Input(ClickNext)
  \/ Callback(Tick)
  \/ Callback(MasterComplete)
  \/ Callback(TrackComplete)
  \/ Callback(CardsComplete)

SpecGesture == Init /\ [][NextGesture]_vars

(* ---------------------------------------------------------------------- *)
(* The reducer alone, on every CarouselState with indices in range         *)
(* ---------------------------------------------------------------------- *)

ReducerActions ==
  {Action("NEXT", 0), Action("PREV", 0), Action("ANIMATION_END", 0)}
    \cup {Action("GOTO", p) : p \in Payloads}
    \cup {Action("INTERRUPT", p) : p \in Payloads}

InitReducer ==
  /\ state \in {CarouselState(c, f, st) : c \in Indices, f \in Indices,
                                         st \in {Idle, Animating}}
  /\ ev = Ev("init", FALSE, state, << >>, 0, FALSE)
  /\ mounted = TRUE
  /\ displayedImage = state.currentIndex
  /\ visibleBg = 0
  /\ bgImage = [l \in {0, 1} |-> IF l = 0 THEN state.currentIndex ELSE 0 - 1]
  /\ masterTimeline = NoMaster
  /\ mainTween = NoTween
  /\ cardsTimeline = NoCards
  /\ innerWidth = SetMin(Viewports)
  /\ x = snapTo(state.currentIndex, 0, innerWidth)
  /\ dragInfo = NoDrag
  /\ capture = 0
  /\ resizeTimer = 0 - 1
  /\ tickerAdded = tickerAdd(0)
  /\ layout = defaultLayout
  /\ cards = [i \in Indices |-> Identity]
  /\ cardsBefore = {}
  /\ probe = NoProbe
  /\ burst = NoBurst
  /\ cardTransformers = AtRest
  /\ run = Broken
  /\ inputs = 0

\* carouselReducer(state, a), with no render and no effect
Reduce(a) ==
  /\ state' = carouselReducer(state, a)
  /\ ev' = Ev("dispatch", TRUE, state, << a >>, 0, FALSE)
  /\ UNCHANGED << mounted, displayedImage, visibleBg, bgImage, masterTimeline, mainTween,
                  cardsTimeline, x, dragInfo, capture, innerWidth, resizeTimer, tickerAdded,
                  run, inputs, aux >>

NextReducer == \E a \in ReducerActions : Reduce(a)

SpecReducer == InitReducer /\ [][NextReducer]_vars

(* ---------------------------------------------------------------------- *)
(* The geometry functions alone, on tracks of several widths and offsets   *)
(* ---------------------------------------------------------------------- *)

\* layouts getTargetX is measured on: no parent element, no layout box, and a
\* viewport in each range of card widths (70vw, 70vw, 50vw, 35vw)
GeometryWidths == {NoParent, 0, 400, 600, 800, 1200}

\* half the distance between the targets of two neighbours
HalfStep(vw) == IF vw = NoParent THEN 0 ELSE (CardWidth(vw) \div 2) + CardMargin

\* track offsets getClosestIndex is tried on: every target, the points half
\* way between two targets and half a step beyond the ends, and the pixels
\* next to each of them
TrackOffsets(vw) ==
  {getTargetX(i, vw) + k * HalfStep(vw) + e :
     i \in Indices, k \in {0 - 1, 0, 1}, e \in {0 - 1, 0, 1}}

InitGeometry ==
  /\ mounted = TRUE
  /\ state = initialCarouselState
  /\ displayedImage = initialCarouselState.currentIndex
  /\ visibleBg = 0
  /\ bgImage = [l \in {0, 1} |-> IF l = 0 THEN initialCarouselState.currentIndex ELSE 0 - 1]
  /\ masterTimeline = NoMaster
  /\ mainTween = NoTween
  /\ cardsTimeline = NoCards
  /\ innerWidth \in GeometryWidths
  /\ x \in TrackOffsets(innerWidth)
  /\ dragInfo = NoDrag
  /\ capture = 0
  /\ resizeTimer = 0 - 1
  /\ tickerAdded = tickerAdd(0)
  /\ layout = defaultLayout
  /\ cards = [i \in Indices |-> Identity]
  /\ cardsBefore = {}
  /\ probe = NoProbe
  /\ burst = NoBurst
  /\ cardTransformers = AtRest
  /\ ev = Ev("init", FALSE, state, << >>, 0, FALSE)
  /\ run = Broken
  /\ inputs = 0

\* what a call on the controller leaves alone in any case
UnchangedByCall ==
  UNCHANGED << mounted, state, displayedImage, visibleBg, bgImage, masterTimeline,
               dragInfo, capture, innerWidth, resizeTimer, tickerAdded, layout, cards,
               cardsBefore, burst, run >>

\* getTargetX(index)
MeasureTarget(index) ==
  /\ probe' = Probe(index, 0, getTargetX(index, innerWidth))
  /\ ev' = Ev("getTargetX", TRUE, state, << >>, 0, FALSE)
  /\ UnchangedByCall
  /\ UNCHANGED << mainTween, cardsTimeline, x, cardTransformers, inputs >>

\* getClosestIndex()
FindClosest ==
  /\ probe' = Probe(0, 0, getClosestIndex(x, innerWidth))
  /\ ev' = Ev("getClosestIndex", TRUE, state, << >>, 0, FALSE)
  /\ UnchangedByCall
  /\ UNCHANGED << mainTween, cardsTimeline, x, cardTransformers, inputs >>

NextGeometry ==
  \/ \E index \in Payloads : MeasureTarget(index)
  \/ FindClosest

SpecGeometry == InitGeometry /\ [][NextGeometry]_vars

(* ---------------------------------------------------------------------- *)
(* The controller alone: goTo, snapTo and drag with any index              *)
(* ---------------------------------------------------------------------- *)

\* goTo, the cards: the new tween of every card starts from where the card is
goToFrom(toIndex, ct) ==
  IF toIndex < 0 \/ toIndex >= NumImages
    THEN ct
    ELSE [i \in Indices |-> [x |-> ct[i].x, from |-> ct[i].x]]

\* deltaX values drag is tried with
DragDeltas == {0 - 56, 229}

\* goTo(fromIndex, toIndex)
GoTo(fromIndex, toIndex) ==
  /\ mainTween' = goToTween(fromIndex, toIndex, mainTween, x, innerWidth)
  /\ cardsTimeline' = goToCards(fromIndex, toIndex, cardsTimeline)
  /\ cardTransformers' = goToFrom(toIndex, cardTransformers)
  /\ probe' = Probe(toIndex, fromIndex, 0)
  /\ ev' = Ev("goTo", TRUE, state, << >>, 0, FALSE)
  /\ UnchangedByCall
  /\ x' = x

\* snapTo(index)
SnapTo(index) ==
  /\ x' = snapTo(index, x, innerWidth)
  /\ probe' = Probe(index, 0, 0)
  /\ ev' = Ev("snapTo", TRUE, state, << >>, 0, FALSE)
  /\ UnchangedByCall
  /\ UNCHANGED << mainTween, cardsTimeline, cardTransformers >>

\* drag(baseX, deltaX) from where the track is
Drag(deltaX) ==
  /\ x' = drag(x, deltaX)
  /\ probe' = Probe(0, 0, 0)
  /\ ev' = Ev("drag", TRUE, state, << >>, deltaX, FALSE)
  /\ UnchangedByCall
  /\ UNCHANGED << mainTween, cardsTimeline, cardTransformers >>

\* a call from outside: one more of the MaxCalls of a run
Call(A) == inputs < MaxCalls /\ A /\ inputs' = inputs + 1

NextController ==
  \/ \E fromIndex \in Indices, toIndex \in Payloads : Call(GoTo(fromIndex, toIndex))
  \/ \E index \in Payloads : Call(SnapTo(index))
  \/ \E deltaX \in DragDeltas : Call(Drag(deltaX))
  \/ Callback(Tick)
  \/ Callback(TrackComplete)
  \/ Callback(CardsComplete)

SpecController == Init /\ [][NextController]_vars

(* ---------------------------------------------------------------------- *)
(* The buttons, the dots and one pointer, with a ticker that keeps running *)
(* ---------------------------------------------------------------------- *)

NextRetarget ==
  \/ Input(ClickPrev)
  \/ Input(ClickNext)
  \/ \E index \in Indices : Input(ClickDot(index))
  \/ \E clientX \in ClientXs : Input(handlePointerDown(0, clientX, 1))
  \/ \E clientX \in ClientXs : Input(handlePointerUp(clientX, 1, TRUE))
  \/ Callback(Tick)
  \/ Callback(MasterComplete)
  \/ Callback(TrackComplete)
  \/ Callback(CardsComplete)

\* gsap.ticker calls back on every animation frame for as long as the page
\* lives: time keeps passing, and a tween that is due completes
TickerRuns ==
  /\ WF_vars(Callback(Tick))
  /\ WF_vars(Callback(MasterComplete))
  /\ WF_vars(Callback(TrackComplete))
  /\ WF_vars(Callback(CardsComplete))

SpecRetarget == Init /\ [][NextRetarget]_vars /\ TickerRuns

(* ---------------------------------------------------------------------- *)
(* Resizes in bursts, tick by tick                                         *)
(* ---------------------------------------------------------------------- *)

\* what the steps of a burst leave alone
UnchangedByResize == UNCHANGED << layout, cards, cardsBefore, probe, cardTransformers >>

\* a resize notification: the first of a burst when no timer is pending
ResizeInBurst(vw) ==
  /\ inputs < MaxInputs
  /\ Resize(vw)
  /\ inputs' = inputs + 1
  /\ burst' = IF resizeTimer >= 0
                THEN Burst(burst.size + 1, burst.quiet, 0, burst.calls)
                ELSE Burst(1, 0, 0, 0)
  /\ UnchangedByResize

\* d ticks pass, any number up to the next thing that is due
Wait(d) ==
  /\ Advance(d)
  /\ inputs' = inputs
  /\ burst' = [burst EXCEPT
                 !.quiet = IF @ + d > DebounceDelay THEN DebounceDelay ELSE @ + d]
  /\ UnchangedByResize

\* the timer fires: the debounced function is called
TimerFires ==
  /\ handleResize
  /\ inputs' = inputs
  /\ burst' = [burst EXCEPT !.calls = @ + 1]
  /\ UnchangedByResize

NextResize ==
  \/ \E vw \in Viewports : ResizeInBurst(vw)
  \/ \E d \in 1 .. Leap : Wait(d)
  \/ TimerFires
  \/ Input(ClickNext)
  \/ Callback(MasterComplete)
  \/ Callback(TrackComplete)
  \/ Callback(CardsComplete)

\* time keeps passing, and a timer or a tween that is due is served
TimersRun ==
  /\ WF_vars(\E d \in 1 .. Leap : Wait(d))
  /\ WF_vars(TimerFires)
  /\ WF_vars(Callback(MasterComplete))
  /\ WF_vars(Callback(TrackComplete))
  /\ WF_vars(Callback(CardsComplete))

SpecResize == Init /\ [][NextResize]_vars /\ TimersRun

(* ---------------------------------------------------------------------- *)
(* goTo and the local offsets of the cards                                 *)
(* ---------------------------------------------------------------------- *)

\* ticks the card timeline ct has run
CardsElapsed(ct) ==
  (IF ct.push THEN PushSettleDuration + StaggerAmount ELSE SettleOnlyDuration)
    - ct.remaining

\* ticks until a card next comes to the end of its push keyframe or something
\* is due, MaxLeap ticks at most
LeapCards ==
  SetMin({Leap}
         \cup (IF cardsTimeline.active /\ cardsTimeline.push
                 THEN {e \in {StaggerDelay(i, cardsTimeline.toIndex) + PushDuration
                                - CardsElapsed(cardsTimeline) : i \in Indices} : e > 0}
                 ELSE {}))

\* time passes up to there, and the card timeline writes x of every card
\* transformer
TickCards ==
  /\ Advance(LeapCards)
  /\ inputs' = inputs
  /\ cardTransformers' =
       IF cardsTimeline.active
         THEN [i \in Indices |->
                [cardTransformers[i] EXCEPT
                   !.x = CardValue(cardsTimeline, i, cardTransformers[i].from,
                                   CardsElapsed(cardsTimeline'))]]
         ELSE cardTransformers
  /\ UNCHANGED << layout, cards, cardsBefore, probe, burst >>

NextCards ==
  \/ \E fromIndex \in Indices, toIndex \in Indices : Call(GoTo(fromIndex, toIndex))
  \/ TickCards
  \/ Callback(TrackComplete)
  \/ Callback(CardsComplete)

SpecCards == Init /\ [][NextCards]_vars

(* ---------------------------------------------------------------------- *)
(* Properties                                                              *)
(* ---------------------------------------------------------------------- *)

\* the one action the last handler dispatched
Dispatched == ev.dispatched[1]

DispatchedOne(type) == Len(ev.dispatched) = 1 /\ Dispatched.type = type

\* C1: from every state with currentIndex c in [0, N), NEXT yields
\* currentIndex (c + 1) mod N and PREV yields (c - 1 + N) mod N, both with
\* fromIndex c and status animating; PREV from 0 gives N - 1 and NEXT from
\* N - 1 gives 0.
C1_NextPrevWrap ==
  (ev.handler = "dispatch" /\ ev.before.currentIndex \in Indices) =>
    LET c == ev.before.currentIndex
    IN /\ Dispatched.type = "NEXT" =>
            /\ state = CarouselState((c + 1) % NumImages, c, Animating)
            /\ c = NumImages - 1 => state.currentIndex = 0
       /\ Dispatched.type = "PREV" =>
            /\ state = CarouselState((c - 1 + NumImages) % NumImages, c, Animating)
            /\ c = 0 => state.currentIndex = NumImages - 1

C1_Witness ==
  /\ ev.handler = "dispatch"
  /\ Dispatched.type = "PREV"
  /\ ev.before = CarouselState(0, 0, Idle)
  /\ state = CarouselState(6, 0, Animating)

\* C2, as stated: after three NEXTs from the idle state at index 0 the
\* current index is 3, and the status is idle only once three ANIMATION_ENDs
\* have been processed.
C2_IdleOnlyAfterThirdEnd ==
  run.nexts = 3 =>
    /\ state.currentIndex = 3
    /\ state.status = Idle => run.ends >= 3

\* C2, amended: after three NEXTs from the idle state at index 0 the current
\* index is 3; the status is animating after the third NEXT and idle as soon as
\* one ANIMATION_END has been processed after it, however many were processed
\* before.
C2_ThreeNexts ==
  run.nexts = 3 =>
    /\ state.currentIndex = 3
    /\ state.status = Idle <=> run.last = "ANIMATION_END"
    /\ run.ends <= 3

\* three NEXTs that retarget one another, and the single ANIMATION_END processed
C2_Witness ==
  /\ run.nexts = 3
  /\ run.ends = 1
  /\ state = CarouselState(3, 3, Idle)
  /\ ev.handler = "onComplete"

\* C3: whenever the status is idle, fromIndex equals currentIndex.
C3_IdleIndicesEqual == state.status = Idle => state.fromIndex = state.currentIndex

\* an ANIMATION_END has committed a transition between two different cards
C3_Witness ==
  /\ ev.handler = "onComplete"
  /\ DispatchedOne("ANIMATION_END")
  /\ ev.before.fromIndex # ev.before.currentIndex
  /\ state.status = Idle

\* C4: GOTO(i) with i the current index changes nothing, in either status:
\* the state stays as it is and no transition is started; with another i it
\* sets fromIndex to the old currentIndex, currentIndex to i and the status to
\* animating.
C4_GotoFrame ==
  [][ev'.handler = "dot" =>
       LET i == ev'.dispatched[1].payload
       IN IF i = state.currentIndex
            THEN UNCHANGED << state, masterTimeline, mainTween, cardsTimeline, bgImage,
                              visibleBg, displayedImage, x >>
            ELSE state' = CarouselState(i, state.currentIndex, Animating)]_vars

\* the dot of the current card was clicked in the middle of a transition
C4_Witness ==
  /\ ev.handler = "dot"
  /\ Dispatched.payload = ev.before.currentIndex
  /\ ev.before.status = Animating
  /\ state = ev.before
  /\ masterTimeline.active
  /\ masterTimeline.remaining < MasterDuration

\* C5: a GOTO whose payload is outside [0, N) leaves the CarouselState as it
\* was.
C5_OutOfRangeGotoIgnored ==
  (ev.handler = "dispatch" /\ Dispatched.type = "GOTO" /\ Dispatched.payload \notin Indices)
    => state = ev.before

\* C6: after a primary-button pointer-down that found the status animating, the
\* master timeline, the track tween and the card timeline are dead, the one
\* action dispatched is INTERRUPT with the index closest to where the track
\* stopped, the state is idle on that index, and the drag session starts from
\* that same offset with no move applied.
C6_InterruptBeforeDrag ==
  (ev.handler = "pointerdown" /\ ev.acted /\ ev.before.status = Animating) =>
    LET closestIndex == getClosestIndex(x, innerWidth)
    IN /\ ~masterTimeline.active
       /\ ~mainTween.active
       /\ ~cardsTimeline.active
       /\ ev.dispatched = << Action("INTERRUPT", closestIndex) >>
       /\ state = CarouselState(closestIndex, closestIndex, Idle)
       /\ displayedImage = closestIndex
       /\ dragInfo.isDragging
       /\ dragInfo.startCarouselX = x

\* a transition to another card was interrupted so early that the track is
\* still closest to the card it left
C6_Witness ==
  /\ ev.handler = "pointerdown"
  /\ ev.acted
  /\ ev.before.status = Animating
  /\ ev.before.fromIndex # ev.before.currentIndex
  /\ DispatchedOne("INTERRUPT")
  /\ Dispatched.payload = ev.before.fromIndex
  /\ dragInfo.isDragging

\* C7: the master timeline of a transition that was cancelled (by an
\* interrupt, by a newer transition or by destroy) never completes: no
\* ANIMATION_END comes from it.
C7_CancelledNeverCompletes == ev.handler = "onComplete" => ~ev.cancelled

\* C8: the ANIMATION_END that commits a transition is dispatched only after
\* the track tween has finished, never while it is still running.
C8_CommitAfterTrackTween ==
  (ev.handler = "onComplete" /\ mounted) => ~mainTween.active

\* C9: a drag write or a snap never happens while a track tween is running.
C9_SingleWriter ==
  (ev.handler \in {"pointermove", "handleResize"} /\ ev.acted) => ~mainTween.active

\* a release within the threshold cardWidth / 5
ReleasedWithin ==
  /\ ev.handler = "pointerup"
  /\ ev.acted
  /\ 5 * Abs(ev.deltaX) <= CardWidth(innerWidth)

\* C10, as stated: a release with |deltaX| within the threshold dispatches
\* nothing and leaves the CarouselState unchanged, with the status idle, and a
\* track tween to targetOffset(currentIndex) is started.
C10_SnapBackStaysIdle ==
  ReleasedWithin =>
    /\ ev.dispatched = << >>
    /\ state = ev.before
    /\ state.status = Idle
    /\ mainTween.active
    /\ mainTween.elapsed = 0
    /\ mainTween.target = getTargetX(state.currentIndex, innerWidth)

\* C10, amended: a release with |deltaX| within the threshold dispatches
\* nothing and leaves the CarouselState unchanged, whatever its status, and a
\* track tween to targetOffset(currentIndex) is started.
C10_SnapBack ==
  ReleasedWithin =>
    /\ ev.dispatched = << >>
    /\ state = ev.before
    /\ mainTween.active
    /\ mainTween.elapsed = 0
    /\ mainTween.target = getTargetX(state.currentIndex, innerWidth)

\* a drag released exactly on the threshold, away from where it started
C10_Witness ==
  /\ ReleasedWithin
  /\ 5 * Abs(ev.deltaX) = CardWidth(innerWidth)
  /\ ev.dispatched = << >>
  /\ mainTween.active
  /\ x # mainTween.target

\* C11: a release that ends a drag has exactly one of three outcomes, decided
\* by its deltaX and threshold = cardWidth / 5: below -threshold the one action
\* dispatched is NEXT, above threshold it is PREV, and otherwise (on the
\* threshold too) nothing is dispatched; never two actions.
C11_ReleaseOutcome ==
  (ev.handler = "pointerup" /\ ev.acted) =>
    LET cardWidth == CardWidth(innerWidth)
        c         == ev.before.currentIndex
    IN /\ Len(ev.dispatched) <= 1
       /\ 5 * ev.deltaX < 0 - cardWidth =>
            /\ ev.dispatched = << Action("NEXT", 0) >>
            /\ state = CarouselState((c + 1) % NumImages, c, Animating)
       /\ 5 * ev.deltaX > cardWidth =>
            /\ ev.dispatched = << Action("PREV", 0) >>
            /\ state = CarouselState((c - 1 + NumImages) % NumImages, c, Animating)
       /\ (5 * ev.deltaX >= 0 - cardWidth /\ 5 * ev.deltaX <= cardWidth) =>
            /\ ev.dispatched = << >>
            /\ state = ev.before

\* a drag to the left released beyond the threshold
C11_Witness ==
  /\ ev.handler = "pointerup"
  /\ ev.acted
  /\ 5 * ev.deltaX < 0 - CardWidth(innerWidth)
  /\ DispatchedOne("NEXT")
  /\ state.currentIndex = (ev.before.currentIndex + 1) % NumImages

\* C12: every pointer-up, pointer-cancel or pointer-leave that ends an active
\* drag leaves the drag session cleared (isDragging false) and the pointer
\* capture released, also when a step of the handler (the release of the
\* capture) fails.
C12_ReleaseAlwaysClears ==
  (ev.handler = "pointerup" /\ ev.acted) => (~dragInfo.isDragging /\ capture = 0)

\* a pointer event that carries another pointer id than the drag session's
OtherPointerEvent ==
  \E button \in Buttons, clientX \in ClientXs,
     pointerId \in PointerIds \ {dragInfo.pointerId} :
    \/ handlePointerDown(button, clientX, pointerId)
    \/ handlePointerMove(clientX, pointerId)
    \/ handlePointerUp(clientX, pointerId, TRUE)

\* C13: while a drag session is active for pointer p, a pointer event (down,
\* move, up, cancel, leave) of another pointer q is ignored: the drag session,
\* the track offset and the CarouselState stay as they are.
C13_OtherPointerIgnored ==
  [][(dragInfo.isDragging /\ OtherPointerEvent) => UNCHANGED << dragInfo, x, state >>]_vars

\* C14: a pointer-up, pointer-cancel, pointer-leave or pointer-move that finds
\* no drag session active (none was begun, or it was released already) does
\* nothing: no action is dispatched, no tween is started, and the track
\* offset and the drag session stay as they are.
C14_NoSessionNoOp ==
  [][(~dragInfo.isDragging /\ ev'.handler \in {"pointermove", "pointerup"}) =>
       /\ ev'.dispatched = << >>
       /\ UNCHANGED << state, x, dragInfo, capture, masterTimeline, mainTween,
                       cardsTimeline, bgImage, visibleBg, displayedImage >>]_vars

\* a release that came after the drag had been released, while the snap-back
\* tween of the first release was running
C14_Witness ==
  /\ ev.handler = "pointerup"
  /\ ~ev.acted
  /\ ~dragInfo.isDragging
  /\ dragInfo.pointerId # 0
  /\ mainTween.active
  /\ mainTween.elapsed = 0
  /\ state.status = Idle

\* C15: whatever the buttons, the dots, the drags and the interrupts do,
\* currentIndex and fromIndex are in [0, N) in every reachable state, and the
\* payload of every INTERRUPT, which getClosestIndex returns, is in [0, N).
C15_IndicesInRange ==
  /\ state.currentIndex \in Indices
  /\ state.fromIndex \in Indices
  /\ (ev.handler = "pointerdown" /\ ev.dispatched # << >>) =>
       /\ DispatchedOne("INTERRUPT")
       /\ Dispatched.payload \in Indices

\* a transition between two cards was interrupted so late that the track is
\* closest to the card it was going to
C15_Witness ==
  /\ ev.handler = "pointerdown"
  /\ DispatchedOne("INTERRUPT")
  /\ ev.before.fromIndex # ev.before.currentIndex
  /\ Dispatched.payload = ev.before.currentIndex
  /\ state = CarouselState(Dispatched.payload, Dispatched.payload, Idle)

\* C16: when the debounced resize handler fires, the track offset is set at
\* once to targetOffset(currentIndex), for the currentIndex of that moment and
\* the layout of that moment; no tween is created and the CarouselState is
\* unchanged.
C16_ResizeSnaps ==
  [][ev'.handler = "handleResize" =>
       /\ x' = getTargetX(state.currentIndex, LayoutWidth)
       /\ UNCHANGED << state, mainTween, cardsTimeline, masterTimeline >>]_vars

\* the handler fired in a layout of another width, on a card that a click
\* made current after the mount
C16_Witness ==
  /\ ev.handler = "handleResize"
  /\ mounted
  /\ innerWidth # SetMin(Viewports)
  /\ state.currentIndex # initialCarouselState.currentIndex
  /\ x = getTargetX(state.currentIndex, innerWidth)
  /\ x # getTargetX(state.currentIndex, SetMin(Viewports))

\* C17: once the layout is linear, the next render sets the vertical offset,
\* the rotation and the scale of every card to exactly (0, 0, 1), wherever the
\* track is and whether or not a transition or a drag is in progress.
C17_LinearResets ==
  (ev.handler = "render" /\ layout = "linear") => \A i \in Indices : cards[i] = Identity

\* the first render after a switch from arc to linear, in the middle of a
\* transition: cards were lifted, turned and shrunk before it
C17_Witness ==
  /\ ev.handler = "render"
  /\ layout = "linear"
  /\ cardsBefore # {}
  /\ \A i \in Indices : cards[i] = Identity
  /\ mainTween.active
  /\ mainTween.elapsed > 0

\* C18: for every index i in [0, N) on a track that can be measured,
\* getTargetX(i) centres card i: parentWidth / 2 = offsetLeft(i) + getTargetX(i)
\* + offsetWidth(i) / 2; for an index out of range or a track without parent
\* it returns 0.
C18_TargetCenters ==
  ev.handler = "getTargetX" =>
    IF probe.index \in Indices /\ innerWidth # NoParent
      THEN ParentWidth(innerWidth) =
             2 * OffsetLeft(probe.index, innerWidth) + 2 * probe.result
               + CardWidth(innerWidth)
      ELSE probe.result = 0

\* the target of the last card in the widest layout: a track moved far to the
\* left
C18_Witness ==
  /\ ev.handler = "getTargetX"
  /\ probe.index = NumImages - 1
  /\ innerWidth >= LgBreakpoint
  /\ probe.result < 0 - innerWidth
  /\ OffsetLeft(probe.index, innerWidth) + probe.result
       = (innerWidth - CardWidth(innerWidth)) \div 2

\* the distance of the track at offset xx from the target of card j
Distance(j, xx, vw) == Abs(xx - getTargetX(j, vw))

\* C19: getClosestIndex returns an index whose target is nearest to the
\* track offset, and of several nearest the smallest.
C19_ClosestFirst ==
  ev.handler = "getClosestIndex" =>
    /\ probe.result \in Indices
    /\ \A j \in Indices :
         Distance(probe.result, x, innerWidth) <= Distance(j, x, innerWidth)
    /\ \A j \in Indices :
         j < probe.result =>
           Distance(j, x, innerWidth) > Distance(probe.result, x, innerWidth)

\* the track is half way between two cards, and the left one is returned
C19_Witness ==
  /\ ev.handler = "getClosestIndex"
  /\ probe.result \in Indices
  /\ probe.result + 1 \in Indices
  /\ Distance(probe.result, x, innerWidth) > 0
  /\ Distance(probe.result + 1, x, innerWidth) = Distance(probe.result, x, innerWidth)

\* C20: goTo(fromIndex, toIndex) and snapTo(index) called with an index
\* outside [0, N) do nothing: no tween is created or killed, mainTween and
\* cardsTimeline keep their values, and the track offset is unchanged.
C20_OutOfRangeNoOp ==
  [][(ev'.handler \in {"goTo", "snapTo"} /\ probe'.index \notin Indices) =>
       UNCHANGED << mainTween, cardsTimeline, x >>]_vars

\* snapTo with an index out of range in the middle of a transition: the tween
\* runs on and the track is where the tween had brought it
C20_Witness ==
  /\ ev.handler = "snapTo"
  /\ probe.index \notin Indices
  /\ mainTween.active
  /\ mainTween.elapsed > 0
  /\ cardsTimeline.active
  /\ x # 0
  /\ x # mainTween.from

\* the last step dispatched NEXT, PREV or GOTO and found the status animating
Retargeted ==
  /\ ev.handler \in {"prev", "next", "dot", "pointerup"}
  /\ ev.dispatched # << >>
  /\ ev.before.status = Animating

\* the last step was an input that did not retarget: after a dispatch that
\* retargeted, a further input has arrived
OtherInput ==
  /\ ev.handler \notin {"tick", "onComplete", "trackComplete", "cardsComplete",
                         "handleResize", "render"}
  /\ ~Retargeted

\* the machine is idle and the track rests on the target of the current card
Settled ==
  /\ state.status = Idle
  /\ state.fromIndex = state.currentIndex
  /\ ~masterTimeline.active
  /\ ~mainTween.active
  /\ x = getTargetX(state.currentIndex, innerWidth)

\* C21: NEXT, PREV or GOTO dispatched while the status is animating retargets
\* and queues nothing.  After such a dispatch the one master timeline, the one
\* track tween and the one card timeline that live are those of the new
\* current index, begun anew from where the track is; a master timeline that
\* completes is always the one of the current index; and unless a further
\* input arrives, eventually the status is idle, fromIndex equals currentIndex
\* and the track rests at the target of the index dispatched last.
C21_RetargetSettles ==
  /\ [][(Retargeted' /\ state' # state) =>
          /\ masterTimeline' = NewMaster(state')
          /\ mainTween' = [active |-> TRUE, from |-> x,
                            target |-> getTargetX(state'.currentIndex, innerWidth),
                            elapsed |-> 0]
          /\ cardsTimeline' = [active |-> TRUE,
                                remaining |-> CardsDuration(state.currentIndex,
                                                            state'.currentIndex),
                                toIndex |-> state'.currentIndex, push |-> TRUE]
          /\ x' = x]_vars
  /\ [][ev'.handler = "onComplete" =>
          /\ state.status = Animating
          /\ masterTimeline.index = state.currentIndex]_vars
  /\ Retargeted ~> (Settled \/ OtherInput)

\* NEXT was dispatched twice, the second time into the transition of the
\* first; one ANIMATION_END was processed and the track tween has ended on the
\* target of card 2
C21_Witness ==
  /\ run = [nexts |-> 2, ends |-> 1, last |-> "ANIMATION_END"]
  /\ ev.handler = "trackComplete"
  /\ Settled
  /\ state.currentIndex = 2

\* C22: render is registered on the ticker once, from the construction of the
\* controller on; it stays registered through every transition, retarget and
\* drag interrupt (an interrupt kills tweens and leaves the ticker alone); and
\* destroy, on unmount, deregisters it, once.
C22_TickerRegisteredOnce ==
  /\ mounted => tickerAdded = 1
  /\ ~mounted => tickerAdded = 0

\* the component was unmounted after a transition had been interrupted: the
\* hidden background layer had got its image and no ANIMATION_END ever came
C22_Witness ==
  /\ ev.handler = "unmount"
  /\ tickerAdded = 0
  /\ state.status = Idle
  /\ dragInfo.isDragging
  /\ visibleBg = 0
  /\ bgImage[1] \in Indices

\* C23: a burst of resize notifications, each less than 200 ms after the one
\* before, causes exactly one call of snapTo.  Every notification cancels the
\* pending timer and arms it anew; the call comes only when 200 ms have passed
\* since the last notification; there is never a second call in a burst; and
\* after the last notification the call does come.
C23_BurstSnapsOnce ==
  /\ [][ev'.handler = "resize" =>
          /\ resizeTimer' = DebounceDelay
          /\ x' = x]_vars
  /\ [][ev'.handler = "handleResize" =>
          /\ burst.quiet = DebounceDelay
          /\ burst'.calls = 1
          /\ resizeTimer' = 0 - 1
          /\ x' = snapTo(state.currentIndex, x, innerWidth)]_vars
  /\ [](burst.calls <= 1)
  /\ (ev.handler = "resize") ~> (burst.calls = 1)

\* three notifications, the last 100 ms after the second, and the one call
\* that followed them
C23_Witness ==
  /\ ev.handler = "handleResize"
  /\ burst.size = 3
  /\ burst.gap = 1
  /\ burst.calls = 1
  /\ resizeTimer = 0 - 1

\* C24: goTo(fromIndex, toIndex) with fromIndex # toIndex gives card i the
\* keyframes -40 (i < toIndex), +40 (i > toIndex) or 0 (i = toIndex) and then
\* 0; with fromIndex = toIndex it gives every card the one target 0.  A card
\* that has come to the end of its push keyframe is at its push target, and
\* when the card timeline completes every card is at 0.
C24_PushThenSettle ==
  /\ (ev.handler = "goTo" /\ probe.index \in Indices) =>
       \A i \in Indices :
         Keyframes(cardsTimeline, i) =
           IF probe.from = probe.index THEN << 0 >>
           ELSE IF i < probe.index THEN << 0 - 40, 0 >>
           ELSE IF i > probe.index THEN << 40, 0 >>
           ELSE << 0, 0 >>
  /\ (cardsTimeline.active /\ cardsTimeline.push) =>
       \A i \in Indices :
         CardsElapsed(cardsTimeline) - StaggerDelay(i, cardsTimeline.toIndex)
             = PushDuration
           => cardTransformers[i].x = PushTarget(i, cardsTimeline.toIndex)
  /\ ev.handler = "cardsComplete" => \A i \in Indices : cardTransformers[i].x = 0

\* a card timeline has completed that was created in the middle of a push:
\* cards were off their rest positions when it began
C24_Witness ==
  /\ ev.handler = "cardsComplete"
  /\ \E i \in Indices : cardTransformers[i].from > 0
  /\ \E i \in Indices : cardTransformers[i].from < 0
  /\ \A i \in Indices : cardTransformers[i].x = 0

\* C25: ANIMATION_END and INTERRUPT are dispatched only while the status is
\* animating: whatever the clicks, the drags and the completions, a master
\* timeline never completes and a pointer-down never interrupts when the
\* machine is idle already.
C25_EndAndInterruptOnlyAnimating ==
  /\ \A k \in 1 .. Len(ev.dispatched) :
       ev.dispatched[k].type \in {"ANIMATION_END", "INTERRUPT"} =>
         ev.before.status = Animating
  /\ ev.handler = "onComplete" => ev.before.status = Animating
  /\ (ev.handler = "pointerdown" /\ ev.before.status = Idle) => ev.dispatched = << >>

\* a pointer-down in the last 200 ms of a transition: ANIMATION_END has made
\* the machine idle, the track tween still runs, and nothing is dispatched
C25_Witness ==
  /\ ev.handler = "pointerdown"
  /\ ev.acted
  /\ ev.before.status = Idle
  /\ ev.dispatched = << >>
  /\ mainTween.active
  /\ mainTween.elapsed >= MasterDuration
  /\ ~masterTimeline.active

\* C26: whenever the status is idle, the image whose title and author are
\* displayed is the image of currentIndex, whether the machine became idle by
\* ANIMATION_END or by INTERRUPT, and after retargets.
C26_DisplayedIsCurrent == state.status = Idle => displayedImage = state.currentIndex

\* an interrupt so late in a transition that the machine settles on the card
\* it was going to, whose title had not been shown yet
C26_Witness ==
  /\ ev.handler = "pointerdown"
  /\ DispatchedOne("INTERRUPT")
  /\ Dispatched.payload # ev.before.fromIndex
  /\ state.status = Idle
  /\ displayedImage = Dispatched.payload
  /\ displayedImage # initialCarouselState.currentIndex

\* C27: whenever the status is idle, the background layer that counts as
\* visible (visibleBg) carries the image of currentIndex, after completed,
\* retargeted and interrupted transitions alike.
C27_VisibleBgIsCurrent == state.status = Idle => bgImage[visibleBg] = state.currentIndex

\* C28: once the component is unmounted nothing acts on the carousel: no
\* master timeline completes and dispatches ANIMATION_END, no debounced resize
\* timer fires and calls snapTo, no track tween and no card tween is left,
\* and render is off the ticker.
C28_NothingAfterUnmount ==
  ~mounted =>
    /\ ev.handler \notin {"onComplete", "handleResize"}
    /\ ~mainTween.active
    /\ ~cardsTimeline.active
    /\ tickerAdded = 0

====
